---------------------------- MODULE Spec2Model ----------------------------
(***************************************************************************)
(* temporal-graph-vis: the batch ingestion script (scripts/ingest_data.py) *)
(* and the windowed graph query of the Flask backend (backend/app.py),     *)
(* both working on one Neo4j store of :Channel nodes and :REPOSTED         *)
(* relationships that carry a millisecond timestamp.                       *)
(***************************************************************************)
EXTENDS Integers, Sequences, FiniteSets, TLC

(***************************************************************************)
(* Bounds of the model.                                                    *)
(***************************************************************************)
\* longest source data file, in records
MaxRecords == 3
\* number of times the ingestion script is run against the same file
MaxRuns == 2
\* number of /graph-data requests served
MaxRequests == 1

\* batch_size of main(); 1000 in the script, scaled so that a file of
\* MaxRecords records is written in more than one batch
batch_size == 2

(***************************************************************************)
(* Python values.  A value carries its type, so that None, NaN/NaT, str    *)
(* and int stay distinguishable.                                           *)
(***************************************************************************)
None == [type |-> "NoneType"]
NaN == [type |-> "NaN"]
PyStr(s) == [type |-> "str", val |-> s]
PyInt(n) == [type |-> "int", val |-> n]
\* a datetime: wall-clock microseconds since the epoch in its own zone;
\* tzinfo is None (naive) or a UTC offset in microseconds
Naive(us) == [type |-> "datetime", us |-> us, tzinfo |-> None]
Aware(us, off) == [type |-> "datetime", us |-> us, tzinfo |-> PyInt(off)]

\* pd.isna
isna(v) == v = NaN \/ v = None

\* int(x) of a float: truncation towards zero
TruncDiv(a, b) == IF a >= 0 THEN a \div b ELSE -((-a) \div b)

RECURSIVE Decimal(_)
Decimal(n) ==
    LET d == <<"0", "1", "2", "3", "4", "5", "6", "7", "8", "9">>
    IN IF n < 10 THEN d[n + 1] ELSE Decimal(n \div 10) \o d[(n % 10) + 1]

\* str(x) of an id: a str is itself, an int is its decimal numeral
str(v) ==
    IF v.type = "str" THEN v.val
    ELSE IF v.val < 0 THEN "-" \o Decimal(-v.val) ELSE Decimal(v.val)

\* the conversion with a naive datetime read in a local zone east of UTC
datetime_to_ms_epoch_NaiveAsLocal(dt) ==
    IF isna(dt) THEN None
    ELSE LET utc_us == IF dt.tzinfo = None THEN dt.us - 60000 ELSE dt.us - dt.tzinfo.val
         IN PyInt(TruncDiv(utc_us, 1000))

\* datetime_to_ms_epoch: None for a missing value; a naive datetime is taken
\* as UTC; the result is int(timestamp() * 1000)
datetime_to_ms_epoch(dt) ==
    IF isna(dt) THEN None
    ELSE LET utc_us == IF dt.tzinfo = None THEN dt.us ELSE dt.us - dt.tzinfo.val
         IN PyInt(TruncDiv(utc_us, 1000))

(***************************************************************************)
(* Source data files: sequences of rows of the DataFrame.                  *)
(***************************************************************************)
Row(f, t, dt) == [channel_from_id |-> f, channel_id |-> t, publish_datetime |-> dt]

RawRows ==
    { Row(PyStr("A"), PyStr("B"), Naive(100000)),
      Row(PyStr("B"), PyStr("C"), Naive(200000)),
      Row(PyStr("A"), PyStr("C"), Naive(150000)),
      Row(PyStr("B"), PyStr("B"), Aware(210999, 60000)),
      Row(PyInt(12), PyStr("12"), Naive(200000)),
      Row(NaN, PyStr("C"), Naive(200000)),
      Row(PyStr("A"), None, Naive(100000)),
      Row(PyStr("A"), PyStr("B"), NaN) }

RECURSIVE SeqsUpTo(_, _)
SeqsUpTo(S, n) ==
    IF n = 0 THEN {<<>>}
    ELSE LET shorter == SeqsUpTo(S, n - 1)
         IN shorter \cup {Append(s, x) : s \in {t \in shorter : Len(t) = n - 1}, x \in S}

Sources == SeqsUpTo(RawRows, MaxRecords)

\* the records of the worked example: (A,B,t=100), (B,C,t=200), (A,C,t=150)
ExampleSource ==
    << Row(PyStr("A"), PyStr("B"), Naive(100000)),
       Row(PyStr("B"), PyStr("C"), Naive(200000)),
       Row(PyStr("A"), PyStr("C"), Naive(150000)) >>

\* errors the store can raise
StoreErrors == {"ServiceUnavailable", "TransientError"}

(***************************************************************************)
(* State.                                                                  *)
(***************************************************************************)
VARIABLES
    \* the Neo4j store
    channels,           \* the channel_id of every :Channel node
    reposted,           \* the :REPOSTED relationships, in creation order
    \* scripts/ingest_data.py
    df,                 \* content of the source data file
    ing_pc,             \* position of main()
    index,              \* number of rows iterated by the preparation loop
    data_for_neo4j,
    processed_count,
    skipped_count,
    i,                  \* offset of the next batch
    stdout,             \* what the current run printed
    exit_codes,         \* exit code of every finished run
    \* backend/app.py
    driver,             \* the module-level driver, None when the start-up connect failed
    req_pc,             \* position of get_graph_data()
    served,             \* number of requests that have arrived
    args,               \* request.args: start_time and end_time
    g_neo4j_db,         \* g.neo4j_db of the request
    min_ts_overall,
    max_ts_overall,
    start_time_ms,
    end_time_ms,
    response,           \* status and JSON body of the answer
    stderr              \* what the handler of the request printed to sys.stderr

storeVars == <<channels, reposted>>
ingVars == <<df, ing_pc, index, data_for_neo4j, processed_count, skipped_count,
             i, stdout, exit_codes>>
reqVars == <<driver, req_pc, served, args, g_neo4j_db, min_ts_overall, max_ts_overall,
             start_time_ms, end_time_ms, response, stderr>>
vars == <<storeVars, ingVars, reqVars>>

(***************************************************************************)
(* ingest_data_batch: the write transaction of one batch.                  *)
(***************************************************************************)
\* the row with MERGE in place of CREATE for the relationship
IngestRow_MergeRelationship(store, row) ==
    LET merged == store.channels \cup {row.source_id.val, row.target_id.val}
        rel == [source |-> row.source_id.val, target |-> row.target_id.val,
                timestamp |-> row.timestamp_ms.val]
        exists == \E k \in 1..Len(store.reposted) : store.reposted[k] = rel
    IN [channels |-> merged,
        reposted |-> IF exists THEN store.reposted ELSE Append(store.reposted, rel)]

\* one row of the UNWIND: MERGE both nodes, then CREATE the relationship
\* when the WHERE clause lets the row through.  The rows are the Python
\* dictionaries of data_for_neo4j; the store keeps the bare property values.
IngestRow(store, row) ==
    LET merged == store.channels \cup {row.source_id.val, row.target_id.val}
        keep == row.source_id # None /\ row.target_id # None /\ row.timestamp_ms # None
    IN [channels |-> merged,
        reposted |-> IF keep
                     THEN Append(store.reposted,
                                 [source |-> row.source_id.val, target |-> row.target_id.val,
                                  timestamp |-> row.timestamp_ms.val])
                     ELSE store.reposted]

RECURSIVE ingest_data_batch(_, _)
ingest_data_batch(store, batch) ==
    IF batch = <<>> THEN store
    ELSE ingest_data_batch(IngestRow(store, Head(batch)), Tail(batch))

Min(a, b) == IF a < b THEN a ELSE b

\* data_for_neo4j[i:i + batch_size], with i counted from 0
Slice(s, from, size) == SubSeq(s, from + 1, Min(from + size, Len(s)))

(***************************************************************************)
(* scripts/ingest_data.py, main()                                          *)
(***************************************************************************)
\* the loop body with a missing datetime filled with the epoch
prepare_row_FillMissingDatetime(row) ==
    LET source_id == row.channel_from_id
        target_id == row.channel_id
        publish_dt == row.publish_datetime
        timestamp_ms == IF isna(publish_dt) THEN PyInt(0) ELSE datetime_to_ms_epoch(publish_dt)
    IN IF isna(source_id) \/ isna(target_id) THEN <<>>
       ELSE <<[source_id |-> PyStr(str(source_id)),
               target_id |-> PyStr(str(target_id)),
               timestamp_ms |-> timestamp_ms]>>

\* the body of "for index, row in df.iterrows()": no dictionary for a row
\* with a missing id or datetime or without a timestamp, else the
\* dictionary appended to data_for_neo4j
prepare_row(row) ==
    LET source_id == row.channel_from_id
        target_id == row.channel_id
        publish_dt == row.publish_datetime
        timestamp_ms == datetime_to_ms_epoch(publish_dt)
    IN IF isna(source_id) \/ isna(target_id) \/ isna(publish_dt) THEN <<>>
       ELSE IF timestamp_ms = None THEN <<>>
       ELSE <<[source_id |-> PyStr(str(source_id)),
               target_id |-> PyStr(str(target_id)),
               timestamp_ms |-> timestamp_ms]>>

\* one iteration of the loop: the row is skipped and counted, or appended
IngPrepareRow ==
    /\ ing_pc = "prepare"
    /\ index < Len(df)
    /\ LET prepared == prepare_row(df[index + 1])
       IN IF prepared = <<>>
          THEN /\ skipped_count' = skipped_count + 1
               /\ UNCHANGED <<data_for_neo4j, processed_count>>
          ELSE /\ data_for_neo4j' = data_for_neo4j \o prepared
               /\ processed_count' = processed_count + 1
               /\ UNCHANGED skipped_count
    /\ index' = index + 1
    /\ UNCHANGED <<df, ing_pc, i, stdout, exit_codes, storeVars, reqVars>>

\* the end of the loop with exit(1) as soon as one row was skipped
IngPrepared_AbortOnAnySkip ==
    /\ ing_pc = "prepare"
    /\ index = Len(df)
    /\ LET summary == [msg |-> "Data preparation complete", processed |-> processed_count,
                       skipped |-> skipped_count]
       IN IF skipped_count > 0
          THEN /\ stdout' = stdout \o <<summary, [msg |-> "ERROR: No valid rows found"]>>
               /\ ing_pc' = "exited"
               /\ exit_codes' = Append(exit_codes, 1)
          ELSE /\ stdout' = Append(stdout, summary)
               /\ ing_pc' = "connect"
               /\ UNCHANGED exit_codes
    /\ UNCHANGED <<df, index, data_for_neo4j, processed_count, skipped_count, i, storeVars, reqVars>>

\* the end of the loop: the summary line, then exit(1) when no row is valid
IngPrepared ==
    /\ ing_pc = "prepare"
    /\ index = Len(df)
    /\ LET summary == [msg |-> "Data preparation complete", processed |-> processed_count,
                       skipped |-> skipped_count]
       IN IF processed_count = 0 /\ skipped_count > 0
          THEN /\ stdout' = stdout \o <<summary, [msg |-> "ERROR: No valid rows found"]>>
               /\ ing_pc' = "exited"
               /\ exit_codes' = Append(exit_codes, 1)
          ELSE /\ stdout' = Append(stdout, summary)
               /\ ing_pc' = "connect"
               /\ UNCHANGED exit_codes
    /\ UNCHANGED <<df, index, data_for_neo4j, processed_count, skipped_count, i, storeVars, reqVars>>

\* "except Exception as e" around the Neo4j interaction: print e, sys.exit(1)
Neo4jError(e) ==
    /\ stdout' = Append(stdout, [msg |-> "ERROR: An error occurred during Neo4j interaction",
                                 error |-> e])
    /\ ing_pc' = "exited"
    /\ exit_codes' = Append(exit_codes, 1)

\* GraphDatabase.driver(...) and driver.verify_connectivity()
IngConnect ==
    /\ ing_pc = "connect"
    /\ \/ /\ ing_pc' = "schema"
          /\ UNCHANGED <<stdout, exit_codes>>
       \/ \E e \in StoreErrors : Neo4jError(e)
    /\ UNCHANGED <<df, index, data_for_neo4j, processed_count, skipped_count, i, storeVars, reqVars>>

\* session.execute_write(create_constraints_indexes); with no data to
\* ingest the run ends here
IngSchema ==
    /\ ing_pc = "schema"
    /\ \/ IF data_for_neo4j = <<>>
          THEN /\ stdout' = stdout \o <<[msg |-> "No data to ingest."],
                                        [msg |-> "Data ingestion completed successfully."]>>
               /\ ing_pc' = "exited"
               /\ exit_codes' = Append(exit_codes, 0)
          ELSE /\ ing_pc' = "batches"
               /\ UNCHANGED <<stdout, exit_codes>>
       \/ \E e \in StoreErrors : Neo4jError(e)
    /\ UNCHANGED <<df, index, data_for_neo4j, processed_count, skipped_count, i, storeVars, reqVars>>

\* the batch without the rollback: a failing transaction keeps its first row
IngBatch_NoRollback ==
    /\ ing_pc = "batches"
    /\ i < Len(data_for_neo4j)
    /\ \/ LET batch == Slice(data_for_neo4j, i, batch_size)
              after == ingest_data_batch([channels |-> channels, reposted |-> reposted], batch)
              processed_records == Min(i + batch_size, Len(data_for_neo4j))
              progress == [msg |-> "Processed records", processed_records |-> processed_records]
          IN /\ channels' = after.channels
             /\ reposted' = after.reposted
             /\ i' = i + batch_size
             /\ IF i + batch_size < Len(data_for_neo4j)
                THEN /\ stdout' = Append(stdout, progress)
                     /\ UNCHANGED <<ing_pc, exit_codes>>
                ELSE /\ stdout' = stdout \o
                            <<progress, [msg |-> "Data ingestion completed successfully."]>>
                     /\ ing_pc' = "exited"
                     /\ exit_codes' = Append(exit_codes, 0)
       \/ LET first == Slice(data_for_neo4j, i, 1)
              after == ingest_data_batch([channels |-> channels, reposted |-> reposted], first)
          IN /\ \E e \in StoreErrors : Neo4jError(e)
             /\ channels' = after.channels
             /\ reposted' = after.reposted
             /\ UNCHANGED i
    /\ UNCHANGED <<df, index, data_for_neo4j, processed_count, skipped_count, reqVars>>

\* one iteration of "for i in range(0, len(data_for_neo4j), batch_size)":
\* the batch commits as one write transaction, or the transaction fails and
\* leaves the store as it was
IngBatch ==
    /\ ing_pc = "batches"
    /\ i < Len(data_for_neo4j)
    /\ \/ LET batch == Slice(data_for_neo4j, i, batch_size)
              after == ingest_data_batch([channels |-> channels, reposted |-> reposted], batch)
              processed_records == Min(i + batch_size, Len(data_for_neo4j))
              progress == [msg |-> "Processed records", processed_records |-> processed_records]
          IN /\ channels' = after.channels
             /\ reposted' = after.reposted
             /\ i' = i + batch_size
             /\ IF i + batch_size < Len(data_for_neo4j)
                THEN /\ stdout' = Append(stdout, progress)
                     /\ UNCHANGED <<ing_pc, exit_codes>>
                ELSE /\ stdout' = stdout \o
                            <<progress, [msg |-> "Data ingestion completed successfully."]>>
                     /\ ing_pc' = "exited"
                     /\ exit_codes' = Append(exit_codes, 0)
       \/ /\ \E e \in StoreErrors : Neo4jError(e)
          /\ UNCHANGED <<i, storeVars>>
    /\ UNCHANGED <<df, index, data_for_neo4j, processed_count, skipped_count, reqVars>>

\* the script is run again on the same file
IngRunAgain ==
    /\ ing_pc = "exited"
    /\ Len(exit_codes) < MaxRuns
    /\ ing_pc' = "prepare"
    /\ index' = 0
    /\ data_for_neo4j' = <<>>
    /\ processed_count' = 0
    /\ skipped_count' = 0
    /\ i' = 0
    /\ stdout' = <<>>
    /\ UNCHANGED <<df, exit_codes, storeVars, reqVars>>

(***************************************************************************)
(* backend/app.py: the read transactions                                   *)
(***************************************************************************)
\* time.time() * 1000 as the request may read it
WallClockMs == {300, 400}

\* collect(...) without DISTINCT: every value as often as it occurs
Distinct_KeepAll(s) == s

\* collect(DISTINCT ...): the first occurrence of every value, in order
RECURSIVE Distinct(_)
Distinct(s) ==
    IF s = <<>> THEN <<>>
    ELSE LET front == Distinct(SubSeq(s, 1, Len(s) - 1))
             last == s[Len(s)]
         IN IF \E k \in 1..Len(front) : front[k] = last THEN front ELSE Append(front, last)

\* the overall range with max(r.timestamp) replaced by a second min(r.timestamp)
get_overall_time_range_tx_MinTwice(rels, now) ==
    LET ts == {rels[k].timestamp : k \in 1..Len(rels)}
        min_ts == IF ts = {} THEN None ELSE PyInt(CHOOSE t \in ts : \A u \in ts : t <= u)
    IN IF min_ts # None THEN <<min_ts, min_ts>> ELSE <<PyInt(0), PyInt(now)>>

\* the overall range with the epoch as both defaults of a store without edges
get_overall_time_range_tx_EpochDefault(rels, now) ==
    LET ts == {rels[k].timestamp : k \in 1..Len(rels)}
        min_ts == IF ts = {} THEN None ELSE PyInt(CHOOSE t \in ts : \A u \in ts : t <= u)
        max_ts == IF ts = {} THEN None ELSE PyInt(CHOOSE t \in ts : \A u \in ts : t >= u)
    IN IF min_ts # None /\ max_ts # None THEN <<min_ts, max_ts>> ELSE <<PyInt(0), PyInt(0)>>

\* _get_overall_time_range_tx: min and max of r.timestamp over all
\* relationships, or the default pair (0, now) when there is none
get_overall_time_range_tx(rels, now) ==
    LET ts == {rels[k].timestamp : k \in 1..Len(rels)}
        min_ts == IF ts = {} THEN None ELSE PyInt(CHOOSE t \in ts : \A u \in ts : t <= u)
        max_ts == IF ts = {} THEN None ELSE PyInt(CHOOSE t \in ts : \A u \in ts : t >= u)
    IN IF min_ts # None /\ max_ts # None THEN <<min_ts, max_ts>> ELSE <<PyInt(0), PyInt(now)>>

\* the window with an exclusive end: r.timestamp < $endTime
InWindow_ExclusiveEnd(r, startTime, endTime) ==
    r.timestamp >= startTime /\ r.timestamp < endTime

\* WHERE r.timestamp >= $startTime AND r.timestamp <= $endTime
InWindow(r, startTime, endTime) == r.timestamp >= startTime /\ r.timestamp <= endTime

\* the degree without the WHERE of the count subquery: the global degree
degree_in_window_Global(rels, n, startTime, endTime) ==
    LET all == 1..Len(rels)
        outgoing == {<<k, rels[k].target>> : k \in {j \in all : rels[j].source = n}}
        incoming == {<<k, rels[k].source>> : k \in {j \in all : rels[j].target = n}}
    IN Cardinality(outgoing \cup incoming)

\* count { MATCH (n)-[r_deg:REPOSTED]-(neighbor) WHERE ... }: the bindings of
\* (r_deg, neighbor) of the undirected pattern, a loop binding only once
degree_in_window(rels, n, startTime, endTime) ==
    LET inw == {k \in 1..Len(rels) : InWindow(rels[k], startTime, endTime)}
        outgoing == {<<k, rels[k].target>> : k \in {j \in inw : rels[j].source = n}}
        incoming == {<<k, rels[k].source>> : k \in {j \in inw : rels[j].target = n}}
    IN Cardinality(outgoing \cup incoming)

\* _get_filtered_graph_data_tx: <<nodes_data, links_in_window>>
get_filtered_graph_data_tx(rels, startTime, endTime) ==
    LET matched == SelectSeq(rels, LAMBDA r : InWindow(r, startTime, endTime))
        sources == [k \in 1..Len(matched) |-> matched[k].source]
        targets == [k \in 1..Len(matched) |-> matched[k].target]
        nodes_in_window == Distinct(sources) \o Distinct(targets)
        links_in_window == [k \in 1..Len(matched) |->
                               [source |-> matched[k].source, target |-> matched[k].target,
                                timestamp |-> matched[k].timestamp]]
        rows == [k \in 1..Len(nodes_in_window) |->
                    [id |-> nodes_in_window[k], label |-> nodes_in_window[k],
                     degree |-> degree_in_window(rels, nodes_in_window[k], startTime, endTime)]]
        nodes_data == Distinct(rows)
    IN \* without a row of the UNWIND the query returns no record: [], []
       IF Len(nodes_in_window) = 0 THEN <<<<>>, <<>>>> ELSE <<nodes_data, links_in_window>>

(***************************************************************************)
(* backend/app.py: GET /graph-data                                         *)
(***************************************************************************)
Driver == [type |-> "Driver"]
Session == [type |-> "Session"]
ClosedSession == [type |-> "Session", closed |-> TRUE]
ValueError == [type |-> "ValueError"]

\* a query-string value, as its characters
QStr(cs) == [type |-> "str", chars |-> cs]

ArgValues ==
    { None, QStr(<<>>), QStr(<<"1", "2", "0">>), QStr(<<"2", "0", "0">>),
      QStr(<<"1", "2", "x">>) }

Digits == <<"0", "1", "2", "3", "4", "5", "6", "7", "8", "9">>
IsDigit(c) == \E k \in 1..10 : Digits[k] = c
DigitVal(c) == (CHOOSE k \in 1..10 : Digits[k] = c) - 1

RECURSIVE DigitsVal(_)
DigitsVal(cs) ==
    IF cs = <<>> THEN 0
    ELSE DigitsVal(SubSeq(cs, 1, Len(cs) - 1)) * 10 + DigitVal(cs[Len(cs)])

\* int(s) of a str: an optional sign and decimal digits, ValueError otherwise
int(s) ==
    LET cs == s.chars
        signed == cs # <<>> /\ Head(cs) \in {"-", "+"}
        body == IF signed THEN Tail(cs) ELSE cs
    IN IF body = <<>> \/ \E k \in 1..Len(body) : ~IsDigit(body[k]) THEN ValueError
       ELSE IF signed /\ Head(cs) = "-" THEN PyInt(-DigitsVal(body))
       ELSE PyInt(DigitsVal(body))

\* "if start_time_str:" is false for None and for the empty string
Truthy(v) == v # None /\ v.chars # <<>>

\* the answer leaves the handler; close_db then closes the session of g
Respond(status, json) ==
    /\ response' = [status |-> status, json |-> json]
    /\ req_pc' = "responded"
    /\ g_neo4j_db' = IF g_neo4j_db = Session THEN ClosedSession ELSE g_neo4j_db

InternalError == [error |-> "An internal server error occurred while retrieving graph data"]

\* "except Exception as e" of the handler: print e to stderr, answer 500
HandlerError(e) ==
    /\ stderr' = Append(stderr, [msg |-> "ERROR: Failed processing /graph-data request",
                                 error |-> e])
    /\ Respond(500, InternalError)

\* a request arrives and the handler calls get_db()
ReqGetDb ==
    /\ req_pc \in {"idle", "responded"}
    /\ served < MaxRequests
    /\ served' = served + 1
    /\ \E a \in [start_time : ArgValues, end_time : ArgValues] : args' = a
    /\ \/ /\ driver = None
          /\ stderr' = <<[msg |-> "ERROR: Neo4j driver not available."]>>
          /\ response' = [status |-> 503, json |-> [error |-> "Database connection not available"]]
          /\ req_pc' = "responded"
          /\ g_neo4j_db' = None
       \/ /\ driver # None
          /\ \/ /\ g_neo4j_db' = Session
                /\ stderr' = <<>>
                /\ req_pc' = "overall_range"
                /\ response' = None
             \/ \* driver.verify_connectivity() or driver.session() raises
                /\ \E e \in StoreErrors :
                      stderr' = <<[msg |-> "ERROR: Failed to create Neo4j session",
                                   error |-> e]>>
                /\ response' = [status |-> 503,
                                json |-> [error |-> "Database connection not available"]]
                /\ req_pc' = "responded"
                /\ g_neo4j_db' = None
    /\ min_ts_overall' = None
    /\ max_ts_overall' = None
    /\ start_time_ms' = None
    /\ end_time_ms' = None
    /\ UNCHANGED <<driver, storeVars, ingVars>>

\* 1. db.read_transaction(_get_overall_time_range_tx)
ReqOverallRange ==
    /\ req_pc = "overall_range"
    /\ \/ \E now \in WallClockMs :
             LET range == get_overall_time_range_tx(reposted, now)
             IN /\ min_ts_overall' = range[1]
                /\ max_ts_overall' = range[2]
                /\ req_pc' = "parse"
                /\ UNCHANGED <<g_neo4j_db, response, stderr>>
       \/ /\ \E e \in StoreErrors : HandlerError(e)
          /\ UNCHANGED <<min_ts_overall, max_ts_overall>>
    /\ UNCHANGED <<driver, served, args, start_time_ms, end_time_ms, storeVars, ingVars>>

\* 2. and 3. parse the parameters, default the missing ones, swap an
\* inverted window
ReqParseParams ==
    /\ req_pc = "parse"
    /\ LET parsed_start == IF Truthy(args.start_time) THEN int(args.start_time) ELSE None
           parsed_end == IF Truthy(args.end_time) THEN int(args.end_time) ELSE None
           s == IF parsed_start = None THEN min_ts_overall ELSE parsed_start
           e == IF parsed_end = None THEN max_ts_overall ELSE parsed_end
       IN IF parsed_start = ValueError \/ parsed_end = ValueError
          THEN /\ Respond(400, [error |-> "Invalid timestamp format for start_time/end_time. Expecting integer milliseconds."])
               /\ UNCHANGED <<start_time_ms, end_time_ms>>
          ELSE /\ start_time_ms' = IF s.val > e.val THEN e ELSE s
               /\ end_time_ms' = IF s.val > e.val THEN s ELSE e
               /\ req_pc' = "filtered_data"
               /\ UNCHANGED <<g_neo4j_db, response>>
    /\ UNCHANGED <<driver, served, args, min_ts_overall, max_ts_overall, stderr, storeVars,
                   ingVars>>

\* the handler that answers a failed windowed read as a window without data
ReqFilteredData_EmptyOnError ==
    /\ req_pc = "filtered_data"
    /\ \/ LET data == get_filtered_graph_data_tx(reposted, start_time_ms.val, end_time_ms.val)
          IN /\ Respond(200, [nodes |-> data[1], links |-> data[2],
                              min_timestamp |-> min_ts_overall.val,
                              max_timestamp |-> max_ts_overall.val])
             /\ UNCHANGED stderr
       \/ /\ \E e \in StoreErrors :
                stderr' = Append(stderr, [msg |-> "ERROR: Failed processing /graph-data request",
                                          error |-> e])
          /\ Respond(200, [nodes |-> <<>>, links |-> <<>>,
                           min_timestamp |-> min_ts_overall.val,
                           max_timestamp |-> max_ts_overall.val])
    /\ UNCHANGED <<driver, served, args, min_ts_overall, max_ts_overall, start_time_ms,
                   end_time_ms, storeVars, ingVars>>

\* 4. and 5. db.read_transaction(_get_filtered_graph_data_tx, ...) and the
\* JSON response
ReqFilteredData ==
    /\ req_pc = "filtered_data"
    /\ \/ LET data == get_filtered_graph_data_tx(reposted, start_time_ms.val, end_time_ms.val)
          IN /\ Respond(200, [nodes |-> data[1], links |-> data[2],
                              min_timestamp |-> min_ts_overall.val,
                              max_timestamp |-> max_ts_overall.val])
             /\ UNCHANGED stderr
       \/ \E e \in StoreErrors : HandlerError(e)
    /\ UNCHANGED <<driver, served, args, min_ts_overall, max_ts_overall, start_time_ms,
                   end_time_ms, storeVars, ingVars>>

(***************************************************************************)
(* Specifications                                                          *)
(***************************************************************************)
IngInit ==
    /\ ing_pc = "prepare"
    /\ index = 0
    /\ data_for_neo4j = <<>>
    /\ processed_count = 0
    /\ skipped_count = 0
    /\ i = 0
    /\ stdout = <<>>
    /\ exit_codes = <<>>

StoreInit ==
    /\ channels = {}
    /\ reposted = <<>>

ReqInit ==
    /\ driver \in {Driver, None}
    /\ req_pc = "idle"
    /\ served = 0
    /\ args = [start_time |-> None, end_time |-> None]
    /\ g_neo4j_db = None
    /\ min_ts_overall = None
    /\ max_ts_overall = None
    /\ start_time_ms = None
    /\ end_time_ms = None
    /\ response = None
    /\ stderr = <<>>

NextIngest ==
    \/ IngPrepareRow
    \/ IngPrepared
    \/ IngConnect
    \/ IngSchema
    \/ IngBatch
    \/ IngRunAgain

NextQuery ==
    \/ ReqGetDb
    \/ ReqOverallRange
    \/ ReqParseParams
    \/ ReqFilteredData

\* the ingestion script alone, on every source file of the bound
InitIngest ==
    /\ df \in Sources
    /\ IngInit
    /\ StoreInit
    /\ ReqInit

SpecIngest == InitIngest /\ [][NextIngest]_vars

\* the store as a finished run of the script on the file src leaves it
RECURSIVE prepare_all(_)
prepare_all(rows) ==
    IF rows = <<>> THEN <<>> ELSE prepare_row(Head(rows)) \o prepare_all(Tail(rows))

RECURSIVE RunBatches(_, _, _)
RunBatches(store, data, from) ==
    IF from >= Len(data) THEN store
    ELSE RunBatches(ingest_data_batch(store, Slice(data, from, batch_size)), data,
                    from + batch_size)

StoreAfterRun(src) == RunBatches([channels |-> {}, reposted |-> <<>>], prepare_all(src), 0)

\* the backend alone, on a store that an earlier run of the script on some
\* source file has filled; the script is not running
InitQuery ==
    /\ \E src \in Sources :
          /\ df = src
          /\ channels = StoreAfterRun(src).channels
          /\ reposted = StoreAfterRun(src).reposted
    /\ IngInit
    /\ ReqInit

SpecQuery == InitQuery /\ [][NextQuery]_vars

\* the files of the full system: the worked example, a file with skipped
\* rows, a file without a valid row, a file with rising timestamps
ExampleSources ==
    { ExampleSource,
      <<Row(PyStr("A"), PyStr("B"), Naive(100000)), Row(NaN, PyStr("C"), Naive(200000))>>,
      <<Row(PyStr("A"), PyStr("B"), NaN)>>,
      \* a file whose second batch holds a timestamp after those of the first
      <<Row(PyStr("A"), PyStr("B"), Naive(100000)), Row(PyStr("A"), PyStr("C"), Naive(150000)),
        Row(PyStr("B"), PyStr("C"), Naive(200000))>> }

\* ingestion runs and requests interleaved
Init ==
    /\ df \in ExampleSources
    /\ IngInit
    /\ StoreInit
    /\ ReqInit

Next == NextIngest \/ NextQuery

Spec == Init /\ [][Next]_vars

(***************************************************************************)
(* Properties of the windowed query (SpecQuery)                            *)
(***************************************************************************)
Answered == req_pc = "responded" /\ response # None
Answered200 == Answered /\ response.status = 200

Occurrences(s, x) == Cardinality({k \in 1..Len(s) : s[k] = x})
Last(s) == s[Len(s)]

\* the persisted relationships whose timestamp t has lo <= t <= hi
PersistedInWindow(lo, hi) ==
    {k \in 1..Len(reposted) : lo <= reposted[k].timestamp /\ reposted[k].timestamp <= hi}

AsLink(r) == [source |-> r.source, target |-> r.target, timestamp |-> r.timestamp]

\* C1: the links of a successful answer are exactly the multiset of the
\* persisted edges with start <= timestamp <= end: every such edge appears
\* once per persisted record, also with equal timestamps or equal
\* (source, target) pairs, and no edge outside the window appears.
C1_LinksAreTheEdgesInWindow ==
    Answered200 =>
        LET links == response.json.links
            lo == start_time_ms.val
            hi == end_time_ms.val
        IN /\ lo <= hi
           /\ \A k \in 1..Len(links) :
                 /\ lo <= links[k].timestamp /\ links[k].timestamp <= hi
                 /\ \E j \in PersistedInWindow(lo, hi) : AsLink(reposted[j]) = links[k]
           /\ \A j \in PersistedInWindow(lo, hi) :
                 Occurrences(links, AsLink(reposted[j])) =
                     Cardinality({m \in PersistedInWindow(lo, hi) : reposted[m] = reposted[j]})

\* one persisted record occurs twice among the links (same pair, same
\* timestamp), and an edge outside the window is left out
C1_Witness ==
    /\ Answered200
    /\ \E j, k \in 1..Len(response.json.links) :
          j # k /\ response.json.links[j] = response.json.links[k]
    /\ \E j \in 1..Len(reposted) :
          j \notin PersistedInWindow(start_time_ms.val, end_time_ms.val)

\* the endpoints of the persisted edges inside the window
EndpointsInWindow(lo, hi) ==
    {reposted[k].source : k \in PersistedInWindow(lo, hi)}
        \cup {reposted[k].target : k \in PersistedInWindow(lo, hi)}

\* C2: the nodes of a successful answer hold exactly one entry for every
\* node that is source or target of an edge inside the window and no entry
\* for any other node.
C2_NodesAreTheEndpointsInWindow ==
    Answered200 =>
        LET nodes == response.json.nodes
        IN /\ {nodes[k].id : k \in 1..Len(nodes)} =
                  EndpointsInWindow(start_time_ms.val, end_time_ms.val)
           /\ \A j, k \in 1..Len(nodes) : nodes[j].id = nodes[k].id => j = k

\* a stored channel is absent from the answer, and a listed node is both a
\* source and a target inside the window
C2_Witness ==
    /\ Answered200
    /\ \E c \in channels : \A k \in 1..Len(response.json.nodes) : response.json.nodes[k].id # c
    /\ \E j, k \in PersistedInWindow(start_time_ms.val, end_time_ms.val) :
          j # k /\ reposted[j].source = reposted[k].target

\* the persisted edges inside the window that have n as source or target
IncidentInWindow(n, lo, hi) ==
    {k \in PersistedInWindow(lo, hi) : reposted[k].source = n \/ reposted[k].target = n}

\* C3: the degree of every node of a successful answer is the number of
\* persisted edges inside the window that have the node as source or target.
C3_DegreeCountsOnlyTheWindow ==
    Answered200 =>
        \A k \in 1..Len(response.json.nodes) :
            response.json.nodes[k].degree =
                Cardinality(IncidentInWindow(response.json.nodes[k].id,
                                             start_time_ms.val, end_time_ms.val))

\* a listed node has an edge outside the window, so that its degree is
\* below its global degree; another listed node has a loop
C3_Witness ==
    /\ Answered200
    /\ \E k \in 1..Len(response.json.nodes) :
          \E j \in 1..Len(reposted) :
             /\ j \notin PersistedInWindow(start_time_ms.val, end_time_ms.val)
             /\ response.json.nodes[k].id \in {reposted[j].source, reposted[j].target}
    /\ \E k \in PersistedInWindow(start_time_ms.val, end_time_ms.val) :
          reposted[k].source = reposted[k].target

\* C5: on a store with edges, the answer to a request without start_time
\* and end_time, which queries the (min, max) pair of the overall range,
\* holds every persisted edge and every node with an edge.
C5_OverallRangeReturnsEverything ==
    (/\ Answered200
     /\ args.start_time = None
     /\ args.end_time = None
     /\ reposted # <<>>) =>
        LET links == response.json.links
            nodes == response.json.nodes
        IN /\ Len(links) = Len(reposted)
           /\ \A k \in 1..Len(reposted) :
                 Occurrences(links, AsLink(reposted[k])) = Occurrences(reposted, reposted[k])
           /\ {nodes[k].id : k \in 1..Len(nodes)} =
                  {reposted[k].source : k \in 1..Len(reposted)}
                      \cup {reposted[k].target : k \in 1..Len(reposted)}

\* the defaults were used on a store with edges at different timestamps
C5_Witness ==
    /\ Answered200
    /\ args.start_time = None
    /\ args.end_time = None
    /\ response.json.min_timestamp < response.json.max_timestamp
    /\ Len(response.json.links) >= 3

\* a parameter that is present but not a well-formed integer
Malformed(v) == v # None /\ int(v) = ValueError

\* C10: a request whose start_time or end_time is present but not a
\* well-formed integer is answered with an error, without the data of a
\* windowed query.
C10_MalformedIsRejected ==
    (Answered /\ (Malformed(args.start_time) \/ Malformed(args.end_time))) =>
        response.status # 200

(***************************************************************************)
(* The worked example (Spec)                                               *)
(***************************************************************************)
AsSet(s) == {s[k] : k \in 1..Len(s)}
NodeEntry(id, degree) == [id |-> id, label |-> id, degree |-> degree]
Link(source, target, timestamp) ==
    [source |-> source, target |-> target, timestamp |-> timestamp]

\* the step that answers the window [120, 200] on the store that one
\* finished run on the example file has left
ExampleQueried ==
    /\ df = ExampleSource
    /\ exit_codes = <<0>>
    /\ ing_pc = "exited"
    /\ req_pc = "filtered_data"
    /\ start_time_ms = PyInt(120)
    /\ end_time_ms = PyInt(200)
    /\ req_pc' = "responded"
    /\ response'.status = 200

\* C4 as stated: the example answers with the nodes B (degree 2) and
\* C (degree 2) only and with the edges (B,C,200) and (A,C,150).
C4_ExampleAsStated ==
    [][ExampleQueried =>
          /\ Len(response'.json.nodes) = 2
          /\ AsSet(response'.json.nodes) = {NodeEntry("B", 2), NodeEntry("C", 2)}
          /\ Len(response'.json.links) = 2
          /\ AsSet(response'.json.links) = {Link("B", "C", 200), Link("A", "C", 150)}]_vars

\* C4, amended: the example answers with the nodes A (degree 1), B (degree 1)
\* and C (degree 2) and with the edges (B,C,200) and (A,C,150); the edge
\* (A,B,100) is not in the answer.
C4_Example ==
    [][ExampleQueried =>
          /\ Len(response'.json.nodes) = 3
          /\ AsSet(response'.json.nodes) =
                 {NodeEntry("A", 1), NodeEntry("B", 1), NodeEntry("C", 2)}
          /\ Len(response'.json.links) = 2
          /\ AsSet(response'.json.links) = {Link("B", "C", 200), Link("A", "C", 150)}]_vars

\* the example was ingested once and the window [120, 200] answered
C4_Witness ==
    /\ df = ExampleSource
    /\ exit_codes = <<0>>
    /\ ing_pc = "exited"
    /\ Answered200
    /\ start_time_ms = PyInt(120)
    /\ end_time_ms = PyInt(200)
    /\ AsSet(response.json.nodes) = {NodeEntry("A", 1), NodeEntry("B", 1), NodeEntry("C", 2)}

(***************************************************************************)
(* Properties of the ingestion (SpecIngest)                                *)
(***************************************************************************)
\* a row that lacks its source id, its target id or its timestamp
Lacks(row) ==
    \/ row.channel_from_id \in {NaN, None}
    \/ row.channel_id \in {NaN, None}
    \/ row.publish_datetime \in {NaN, None}

ValidRows == {k \in 1..Len(df) : ~Lacks(df[k])}
ValidIds == {str(df[k].channel_from_id) : k \in ValidRows}
                \cup {str(df[k].channel_id) : k \in ValidRows}
EdgeOfRow(row) ==
    [source |-> str(row.channel_from_id), target |-> str(row.channel_id),
     timestamp |-> datetime_to_ms_epoch(row.publish_datetime).val]

\* every run so far has ended with exit code 0
AllRunsSucceeded == \A k \in 1..Len(exit_codes) : exit_codes[k] = 0

EdgesBetween(s, t) == {k \in 1..Len(reposted) : reposted[k].source = s /\ reposted[k].target = t}
RowsBetween(s, t) ==
    {k \in ValidRows : str(df[k].channel_from_id) = s /\ str(df[k].channel_id) = t}

\* C6: after n successful runs on the same file the nodes are the distinct
\* ids of the file, whatever n is, and every (source, target) pair has n
\* times the edges the file holds for it: the second run leaves the node
\* set of the first and twice its edges.
C6_NodesMergedEdgesMultiplied ==
    (ing_pc = "exited" /\ AllRunsSucceeded) =>
        /\ channels = ValidIds
        /\ \A s, t \in channels :
              Cardinality(EdgesBetween(s, t)) = Len(exit_codes) * Cardinality(RowsBetween(s, t))
        /\ Len(reposted) = Len(exit_codes) * Cardinality(ValidRows)

\* two runs have succeeded and a pair that the file holds once has two edges
C6_Witness ==
    /\ ing_pc = "exited"
    /\ exit_codes = <<0, 0>>
    /\ Cardinality(channels) >= 2
    /\ \E s, t \in channels :
          Cardinality(RowsBetween(s, t)) = 1 /\ Cardinality(EdgesBetween(s, t)) = 2

\* C7: when the preparation has ended, accepted plus skipped is the number
\* of input rows and the skipped rows are those that lack a source id, a
\* target id or a timestamp; such a row gives the store no edge and no node.
C7_SkippedRowsCountedAndLeftOut ==
    /\ ing_pc # "prepare" =>
          /\ processed_count + skipped_count = Len(df)
          /\ skipped_count = Cardinality({k \in 1..Len(df) : Lacks(df[k])})
    /\ \A k \in 1..Len(reposted) : \E j \in ValidRows : reposted[k] = EdgeOfRow(df[j])
    /\ channels \subseteq ValidIds

\* a run has succeeded on a file with an accepted row and with a skipped
\* row whose target id is not a node of the store
C7_Witness ==
    /\ ing_pc = "exited"
    /\ Last(exit_codes) = 0
    /\ processed_count > 0
    /\ skipped_count > 0
    /\ \E k \in 1..Len(df) :
          /\ Lacks(df[k])
          /\ df[k].channel_id \notin {NaN, None}
          /\ str(df[k].channel_id) \notin channels

\* the file has rows and none of them is valid
NoValidRow == Len(df) > 0 /\ ValidRows = {}
StoreErrorPrinted == \E k \in 1..Len(stdout) : "error" \in DOMAIN stdout[k]

BatchFails ==
    /\ ing_pc = "batches"
    /\ ing_pc' = "exited"
    /\ Last(exit_codes') = 1

\* the batches of this run that were committed: the first i prepared rows
\* are the newest i relationships
CommittedBatchesPersisted ==
    /\ Len(reposted) >= i
    /\ \A k \in 1..i :
          reposted[Len(reposted) - i + k] =
              [source |-> data_for_neo4j[k].source_id.val,
               target |-> data_for_neo4j[k].target_id.val,
               timestamp |-> data_for_neo4j[k].timestamp_ms.val]

\* C9 as stated: a failing batch is not applied, no later batch is applied,
\* the batches before it stay, and the run exits with code 1 after a report
\* that carries the index of the failed batch and the error of the store.
C9_FailureReportsBatchIndex ==
    [][/\ BatchFails =>
             /\ storeVars' = storeVars
             /\ CommittedBatchesPersisted
             /\ Last(stdout').error \in StoreErrors
             /\ "batch" \in DOMAIN Last(stdout')
             /\ Last(stdout').batch = i \div batch_size
       /\ ing_pc = "exited" => storeVars' = storeVars]_vars

\* C9, amended: a failing batch is not applied, no later batch is applied,
\* the batches before it stay, and the run exits with code 1 after a report
\* of the error of the store; the output tells the failed batch only by
\* the progress lines of the batches committed before it.
C9_FailureAbortsRun ==
    [][/\ BatchFails =>
             /\ storeVars' = storeVars
             /\ CommittedBatchesPersisted
             /\ Last(stdout').error \in StoreErrors
             /\ Cardinality({k \in 1..Len(stdout') : "processed_records" \in DOMAIN stdout'[k]})
                    = i \div batch_size
       /\ ing_pc = "exited" => storeVars' = storeVars]_vars

\* the second batch of a run has failed after the first was committed
C9_Witness ==
    /\ ing_pc = "exited"
    /\ Last(exit_codes) = 1
    /\ StoreErrorPrinted
    /\ i > 0
    /\ i < Len(data_for_neo4j)
    /\ Len(reposted) >= i

(***************************************************************************)
(* The store without edges (SpecQuery)                                     *)
(***************************************************************************)
\* C11: on a store without edges the overall range is the default pair
\* (0, wall-clock milliseconds), and the windowed query gives an empty node
\* list and an empty edge list for every window, as data and not as an error.
C11_EmptyStoreGivesDefaultsAndEmptyLists ==
    reposted = <<>> =>
        /\ req_pc \in {"parse", "filtered_data"} =>
              /\ min_ts_overall = PyInt(0)
              /\ max_ts_overall.val \in WallClockMs
        /\ req_pc = "filtered_data" =>
              get_filtered_graph_data_tx(reposted, start_time_ms.val, end_time_ms.val)
                  = <<<<>>, <<>>>>
        /\ Answered200 =>
              /\ response.json.nodes = <<>>
              /\ response.json.links = <<>>
              /\ response.json.min_timestamp = 0
              /\ response.json.max_timestamp \in WallClockMs

\* a window given by the request was answered on the store without edges
C11_Witness ==
    /\ reposted = <<>>
    /\ Answered200
    /\ Truthy(args.start_time)
    /\ Truthy(args.end_time)
    /\ response.json.nodes = <<>>
    /\ response.json.links = <<>>

(***************************************************************************)
(* Failures of the store in a request (Spec)                               *)
(***************************************************************************)
\* C12: when the driver is unavailable, the session cannot be created or a
\* read transaction raises, the answer is an error (503 or 500) without
\* nodes and links; a 200 answer comes only from a request in which nothing
\* failed.
C12_StoreFailureIsAnError ==
    Answered =>
        /\ driver = None => response.status = 503
        /\ stderr # <<>> =>
              /\ response.status \in {503, 500}
              /\ "error" \in DOMAIN response.json
              /\ "nodes" \notin DOMAIN response.json
              /\ "links" \notin DOMAIN response.json
        /\ response.status = 200 =>
              /\ stderr = <<>>
              /\ driver # None
              /\ g_neo4j_db = ClosedSession
              /\ "nodes" \in DOMAIN response.json
              /\ "links" \in DOMAIN response.json

\* the windowed read has failed, after the overall range was read, on a
\* store without edges, where the successful answer holds empty lists
C12_Witness ==
    /\ Answered
    /\ response.status = 500
    /\ min_ts_overall # None
    /\ start_time_ms # None
    /\ \E k \in 1..Len(stderr) : stderr[k].error \in StoreErrors
    /\ reposted = <<>>

(***************************************************************************)
(* A request that runs while the script writes (Spec)                      *)
(***************************************************************************)
\* C13: in every 200 answer the timestamp of every link lies within the
\* min_timestamp and max_timestamp of the same answer, whatever batch
\* commits between the two read transactions of the request.
C13_LinksWithinReportedRange ==
    Answered200 =>
        \A k \in 1..Len(response.json.links) :
            /\ response.json.min_timestamp <= response.json.links[k].timestamp
            /\ response.json.links[k].timestamp <= response.json.max_timestamp

=============================================================================
